---- MODULE Spec2Model ----
(***************************************************************************)
(* Ownership lifecycle of src/main.cpp: unique_pointer_example() and       *)
(* shared_pointer_example() as called from main().  One action per         *)
(* statement; pc is the source line of the next statement to execute.      *)
(* The console is the sequence log; every line written by a constructor,   *)
(* a destructor or to_string() carries the entity that wrote it.           *)
(***************************************************************************)
EXTENDS Integers, Sequences, FiniteSets

\* Number of distinct heap addresses the allocator may hand out.
MaxAddr == 3

Addrs == 1..MaxAddr

VARIABLES
    pc,      \* source line of the next statement; 0 after a fault, 221 at exit
    ents,    \* every entity ever constructed, in construction order
    frame,   \* the smart-pointer locals of the running function, in declaration order
    log,     \* console output
    derefs   \* every use of operator-> / get() made so far

vars == <<pc, ents, frame, log, derefs>>

Faulted == pc = 0

----------------------------------------------------------------------------
\* struct A / struct B : A

\* Constructor bodies run base-first.
CtorChain(kind) == IF kind = "A" THEN <<"A">> ELSE <<"A", "B">>

CtorText(c) == IF c = "A" THEN "A Created" ELSE "B:A Created"

\* Destructor bodies of a complete object of the given kind run derived-first.
DtorChain(kind) == IF kind = "A" THEN <<"A">> ELSE <<"B", "A">>

DtorText(c) == IF c = "A" THEN "A Destroyed" ELSE "B:A Destoyed"

\* ~A() is not declared virtual.
VirtualDtor(kind) == FALSE

\* to_string() is virtual: the body that runs is the one of the dynamic type.
Dispatch_Static(static, dyn) == static

Dispatch(static, dyn) == dyn

to_string(c) == IF c = "A" THEN "I am an A" ELSE "I am a B"

\* member as left by the constructors: every body of the chain assigns it.
\* The structs of unique_pointer_example have no member.
CtorMember(own, kind) ==
    IF own = "shared" THEN CtorChain(kind)[Len(CtorChain(kind))] ELSE ""

----------------------------------------------------------------------------
\* Console lines and the heap

Ev(txt, e) == [txt |-> txt, ent |-> e, val |-> 0, str |-> ""]

EvVal(txt, e, v) == [txt |-> txt, ent |-> e, val |-> v, str |-> ""]

EvStr(txt, e, s) == [txt |-> txt, ent |-> e, val |-> 0, str |-> s]

CtorEvents(kind, e) ==
    [i \in 1..Len(CtorChain(kind)) |-> Ev(CtorText(CtorChain(kind)[i]), e)]

DtorEvents(chain, e) == [i \in 1..Len(chain) |-> Ev(DtorText(chain[i]), e)]

FreeAddrs(es) == Addrs \ {es[i].addr : i \in {j \in DOMAIN es : es[j].alive}}

NewEntity(kind, own, line, a) ==
    [kind |-> kind, addr |-> a, site |-> line, own |-> own,
     count |-> IF own = "shared" THEN 1 ELSE 0,
     alive |-> TRUE, member |-> CtorMember(own, kind)]

Slot(name) == CHOOSE i \in DOMAIN frame : frame[i].name = name

Ref(name) == frame[Slot(name)].ref

Static(name) == frame[Slot(name)].static

SetRef(f, name, r) ==
    [i \in DOMAIN f |-> IF f[i].name = name THEN [f[i] EXCEPT !.ref = r] ELSE f[i]]

Live(r) == r # 0 /\ ents[r].alive

\* No statement of either function tests a pointer before using it.
GuardedLines == {}

Guarded(line) == line \in GuardedLines

DerefRec(name, line) ==
    [owner |-> name, line |-> line, ref |-> Ref(name),
     live |-> Live(Ref(name)), guarded |-> Guarded(line)]

----------------------------------------------------------------------------
\* Statement shapes shared by both functions

\* T name = make_unique<kind>() / make_shared<kind>()
Make(line, name, static, kind, own, next) ==
    /\ pc = line
    /\ \E a \in FreeAddrs(ents) :
          /\ ents' = Append(ents, NewEntity(kind, own, line, a))
          /\ frame' = Append(frame, [name |-> name, static |-> static,
                                     ref |-> Len(ents) + 1])
          /\ log' = log \o CtorEvents(kind, Len(ents) + 1)
    /\ pc' = next
    /\ UNCHANGED derefs

\* What name->to_string() can do.  Through a live entity it is a virtual call.
\* Through a null or dangling pointer the behaviour is undefined: the call
\* faults, or it runs the body of the pointer's static type.
CallOutcomes(static, r) ==
    IF Live(r) THEN {Dispatch(static, ents[r].kind)} ELSE {"fault", static}

\* cout << pre...; name->to_string();
CallToString(line, name, pre, next) ==
    /\ pc = line
    /\ derefs' = derefs \cup {DerefRec(name, line)}
    /\ \E o \in CallOutcomes(Static(name), Ref(name)) :
          IF o = "fault"
          THEN pc' = 0 /\ log' = log \o pre
          ELSE pc' = next /\ log' = (log \o pre) \o <<Ev(to_string(o), Ref(name))>>
    /\ UNCHANGED <<ents, frame>>

\* cout << text
Say(line, text, next) ==
    /\ pc = line
    /\ log' = Append(log, Ev(text, 0))
    /\ pc' = next
    /\ UNCHANGED <<ents, frame, derefs>>

----------------------------------------------------------------------------
\* unique_ptr

\* default_delete<static>: delete static_cast<static*>(p).  When the static
\* type differs from the dynamic type and the destructor is not virtual the
\* behaviour is undefined: either only the static type's destructor runs, or
\* the complete object's destructors run.
DeleteOutcomes(static, dyn) ==
    IF static = dyn \/ VirtualDtor(static)
    THEN {DtorChain(dyn)}
    ELSE {DtorChain(static), DtorChain(dyn)}

\* unique_ptr::reset(): the owned entity, if any, is deleted and the slot is null.
ResetUnique(f, name) ==
    LET r == f[CHOOSE i \in DOMAIN f : f[i].name = name].ref
        s == f[CHOOSE i \in DOMAIN f : f[i].name = name].static
    IN  IF r = 0
        THEN /\ ents' = ents
             /\ log' = log
        ELSE /\ ents' = [ents EXCEPT ![r].alive = FALSE]
             /\ \E chain \in DeleteOutcomes(s, ents[r].kind) :
                   log' = log \o DtorEvents(chain, r)

U111 == Make(111, "ptrA", "A", "A", "unique", 112)

U112 == CallToString(112, "ptrA", <<>>, 114)

U114 == Make(114, "ptrB", "B", "B", "unique", 115)

U115 == CallToString(115, "ptrB", <<>>, 117)

\* ptrA = nullptr;
U117 ==
    /\ pc = 117
    /\ ResetUnique(frame, "ptrA")
    /\ frame' = SetRef(frame, "ptrA", 0)
    /\ pc' = 118
    /\ UNCHANGED derefs

\* ptrB = nullptr;
U118 ==
    /\ pc = 118
    /\ ResetUnique(frame, "ptrB")
    /\ frame' = SetRef(frame, "ptrB", 0)
    /\ pc' = 120
    /\ UNCHANGED derefs

U120 == Say(120, "Run-time polymorphism and dynamic dispatch: ", 121)

U121 == Make(121, "ptrC", "A", "B", "unique", 122)

U122 == CallToString(122, "ptrC", <<>>, 123)

\* } : the locals are destroyed in reverse order of declaration, then control
\* returns to main.
U123 ==
    /\ pc = 123
    /\ IF frame # <<>>
       THEN /\ ResetUnique(frame, frame[Len(frame)].name)
            /\ frame' = SubSeq(frame, 1, Len(frame) - 1)
            /\ pc' = 123
       ELSE /\ pc' = 219
            /\ UNCHANGED <<ents, frame, log>>
    /\ UNCHANGED derefs

----------------------------------------------------------------------------
\* shared_ptr

\* One more owner of the entity r refers to (copying a null pointer shares nothing).
Share_NoCount(es, r) == es

Share(es, r) == IF r = 0 THEN es ELSE [es EXCEPT ![r].count = @ + 1]

\* One owner fewer; the entity is destroyed when its last owner lets go.
Release(es, r) ==
    IF r = 0 THEN es
    ELSE [es EXCEPT ![r].count = @ - 1, ![r].alive = @ /\ es[r].count > 1]

\* The control block written by make_shared<dyn>() destroys a dyn, whatever
\* the type of the last shared_ptr.
SharedDtorChain_Static(static, dyn) == DtorChain(static)

SharedDtorChain(static, dyn) == DtorChain(dyn)

ReleaseEvents(es, static, r) ==
    IF r # 0 /\ es[r].count = 1
    THEN DtorEvents(SharedDtorChain(static, es[r].kind), r)
    ELSE <<>>

\* shared_ptr<A> q = p;
CopyShared_Clone(es, r) ==
    [ents |-> Append(es, [es[r] EXCEPT !.addr = CHOOSE a \in FreeAddrs(es) : TRUE,
                                       !.count = 1]),
     ref |-> Len(es) + 1]

CopyShared(es, r) == [ents |-> Share(es, r), ref |-> r]

\* static_pointer_cast<A>(p): a new owner of the same entity.
StaticPointerCast_Slice(es, r) ==
    [ents |-> Append(es, [es[r] EXCEPT !.addr = CHOOSE a \in FreeAddrs(es) : TRUE,
                                       !.count = 1, !.kind = "A", !.member = "A"]),
     ref |-> Len(es) + 1]

StaticPointerCast(es, r) == [ents |-> Share(es, r), ref |-> r]

\* dynamic_pointer_cast<B>(p): a new owner of the same entity when that entity
\* is a B, an empty pointer otherwise.
DynamicPointerCast_Unchecked(es, r) == [ents |-> Share(es, r), ref |-> r]

DynamicPointerCast(es, r) ==
    IF r # 0 /\ es[r].kind = "B"
    THEN [ents |-> Share(es, r), ref |-> r]
    ELSE [ents |-> es, ref |-> 0]

get(name) == IF Ref(name) = 0 THEN 0 ELSE ents[Ref(name)].addr

use_count(name) == IF Ref(name) = 0 THEN 0 ELSE ents[Ref(name)].count

\* What reading name->member can do: the member of a live entity; through a
\* null or dangling pointer the behaviour is undefined (a fault, or any value).
MemberOutcomes(r) ==
    IF Live(r) THEN {ents[r].member} ELSE {"fault", "", "A", "B"}

\* cout << text << name->member
SayMember(line, name, text, next) ==
    /\ pc = line
    /\ derefs' = derefs \cup {DerefRec(name, line)}
    /\ \E o \in MemberOutcomes(Ref(name)) :
          IF o = "fault"
          THEN pc' = 0 /\ log' = log
          ELSE pc' = next /\ log' = Append(log, EvStr(text, Ref(name), o))
    /\ UNCHANGED <<ents, frame>>

\* cout << text << name.get()
SayGet(line, name, text, next) ==
    /\ pc = line
    /\ derefs' = derefs \cup {DerefRec(name, line)}
    /\ log' = Append(log, EvVal(text, Ref(name), get(name)))
    /\ pc' = next
    /\ UNCHANGED <<ents, frame>>

\* cout << text << name.use_count()
SayUseCount(line, name, text, next) ==
    /\ pc = line
    /\ log' = Append(log, EvVal(text, Ref(name), use_count(name)))
    /\ pc' = next
    /\ UNCHANGED <<ents, frame, derefs>>

\* name = <shared_ptr rvalue res>: name takes over res, its old entity is released.
AssignShared(line, name, res, next) ==
    /\ pc = line
    /\ ents' = Release(res.ents, Ref(name))
    /\ log' = log \o ReleaseEvents(res.ents, Static(name), Ref(name))
    /\ frame' = SetRef(frame, name, res.ref)
    /\ pc' = next
    /\ UNCHANGED derefs

\* T name = <shared_ptr rvalue res>
DeclareShared(line, name, static, res, next) ==
    /\ pc = line
    /\ ents' = res.ents
    /\ frame' = Append(frame, [name |-> name, static |-> static, ref |-> res.ref])
    /\ pc' = next
    /\ UNCHANGED <<log, derefs>>

S148 == Make(148, "ptrA", "A", "A", "shared", 149)

S149 == DeclareShared(149, "ptrB", "A", CopyShared(ents, Ref("ptrA")), 151)

S151 == SayGet(151, "ptrA", "ptrA points to ", 152)

S152 == SayGet(152, "ptrB", "ptrB points to ", 155)

S155 == SayMember(155, "ptrA", "ptrA member: ", 156)

S156 == SayMember(156, "ptrB", "ptrB member: ", 158)

S158 == SayUseCount(158, "ptrA", "ptrA usecount is: ", 160)

\* ptrA = nullptr;
S160 == AssignShared(160, "ptrA", [ents |-> ents, ref |-> 0], 161)

\* ptrB = nullptr;
S161 == AssignShared(161, "ptrB", [ents |-> ents, ref |-> 0], 165)

S165 == Say(165, "---- Pointer casting: ", 166)

S166 == Make(166, "basePtr", "A", "A", "shared", 167)

S167 == Make(167, "derivedPtr", "B", "B", "shared", 169)

S169 == CallToString(169, "basePtr", <<Ev("basePtr: ", 0)>>, 170)

\* basePtr = static_pointer_cast<A>(derivedPtr);
S170 == AssignShared(170, "basePtr", StaticPointerCast(ents, Ref("derivedPtr")), 171)

S171 == Say(171, "basePtr went up class hierarchy! ", 172)

S172 == CallToString(172, "basePtr", <<Ev("basePtr: ", 0)>>, 175)

\* auto downCastPtr = dynamic_pointer_cast<B>(basePtr);
S175 == DeclareShared(175, "downCastPtr", "B", DynamicPointerCast(ents, Ref("basePtr")), 176)

S176 == CallToString(176, "downCastPtr", <<Ev("downCastPtr: ", 0)>>, 178)

S178 ==
    SayUseCount(178, "derivedPtr",
                "How many pointers point to the Derived class (B)? ", 180)

\* } : the locals are destroyed in reverse order of declaration, then control
\* returns to main, which returns too.
S180 ==
    /\ pc = 180
    /\ IF frame # <<>>
       THEN /\ ents' = Release(ents, frame[Len(frame)].ref)
            /\ log' = log \o ReleaseEvents(ents, frame[Len(frame)].static,
                                           frame[Len(frame)].ref)
            /\ frame' = SubSeq(frame, 1, Len(frame) - 1)
            /\ pc' = 180
       ELSE /\ pc' = 221
            /\ UNCHANGED <<ents, frame, log>>
    /\ UNCHANGED derefs

----------------------------------------------------------------------------
\* main

M215 == Say(215, "---- Unique pointers: ", 111)

M219 == Say(219, "---- Shared pointers: ", 148)

Init ==
    /\ pc = 215
    /\ ents = <<>>
    /\ frame = <<>>
    /\ log = <<>>
    /\ derefs = {}

Next ==
    \/ M215
    \/ U111 \/ U112 \/ U114 \/ U115 \/ U117 \/ U118
    \/ U120 \/ U121 \/ U122 \/ U123
    \/ M219
    \/ S148 \/ S149 \/ S151 \/ S152 \/ S155 \/ S156 \/ S158 \/ S160 \/ S161
    \/ S165 \/ S166 \/ S167 \/ S169 \/ S170 \/ S171 \/ S172 \/ S175 \/ S176
    \/ S178 \/ S180

Spec == Init /\ [][Next]_vars

----------------------------------------------------------------------------
\* The casting part of shared_pointer_example entered with basePtr referring
\* to an entity of either kind: the A it holds before line 170, or the B it
\* holds after.

CastFrame(b) ==
    << [name |-> "ptrA", static |-> "A", ref |-> 0],
       [name |-> "ptrB", static |-> "A", ref |-> 0],
       [name |-> "basePtr", static |-> "A", ref |-> b],
       [name |-> "derivedPtr", static |-> "B", ref |-> 2] >>

InitCast ==
    \E a1 \in Addrs, a2 \in Addrs, k \in {"A", "B"} :
       LET es == << NewEntity("A", "shared", 166, a1),
                    NewEntity("B", "shared", 167, a2) >>
           up == StaticPointerCast(es, 2)
           made == CtorEvents("A", 1) \o CtorEvents("B", 2)
       IN  /\ a1 # a2
           /\ pc = 175
           /\ derefs = {}
           /\ IF k = "A"
              THEN /\ ents = es
                   /\ frame = CastFrame(1)
                   /\ log = made
              ELSE /\ ents = Release(up.ents, 1)
                   /\ frame = CastFrame(up.ref)
                   /\ log = made \o ReleaseEvents(up.ents, "A", 1)

NextCast == S175 \/ S176 \/ S178 \/ S180

SpecCast == InitCast /\ [][NextCast]_vars

----------------------------------------------------------------------------
\* Vocabulary of the properties

InUnique == pc \in 111..123

InShared == pc \in 148..180

\* The statement at the given line has been executed.
Past(line) ==
    IF line < 148
    THEN pc \in ((line + 1)..123) \cup {219, 221} \cup (148..180)
    ELSE pc \in ((line + 1)..180) \cup {221}

HasSlot(name) == \E i \in DOMAIN frame : frame[i].name = name

\* The entity constructed by the statement at the given line.
Made(line) == \E e \in DOMAIN ents : ents[e].site = line

E(line) == CHOOSE e \in DOMAIN ents : ents[e].site = line

Idx(txt, e) == {i \in DOMAIN log : log[i].txt = txt /\ log[i].ent = e}

N(txt, e) == Cardinality(Idx(txt, e))

Total(txt) == Cardinality({i \in DOMAIN log : log[i].txt = txt})

AllBefore(S, T) == \A i \in S, j \in T : i < j

Owners(e) == {i \in DOMAIN frame : frame[i].ref = e}

\* Derived teardown, then base teardown, each once.
FullyDestroyed(e) ==
    /\ N("A Destroyed", e) = 1
    /\ ents[e].kind = "B" =>
          /\ N("B:A Destoyed", e) = 1
          /\ AllBefore(Idx("B:A Destoyed", e), Idx("A Destroyed", e))
    /\ ents[e].kind = "A" => N("B:A Destoyed", e) = 0

Untouched(e) == N("A Destroyed", e) = 0 /\ N("B:A Destoyed", e) = 0

DtorIdx(e) == Idx("A Destroyed", e) \cup Idx("B:A Destoyed", e)

Last(q) == q[Len(q)]

----------------------------------------------------------------------------
\* C1: in unique_pointer_example every exclusively-owned entity is untouched
\* while its owner holds it, and once its sole owner has let go (nullptr
\* assignment or scope exit) it has been destroyed exactly once, a B with
\* 'B:A Destoyed' before 'A Destroyed'.
C1_ExclusiveRelease ==
    \A e \in DOMAIN ents :
        ents[e].own = "unique" =>
            IF ents[e].alive THEN Untouched(e) ELSE FullyDestroyed(e)

\* C2: the A co-owned by ptrA and ptrB has count >= 2 while both own it (also
\* as printed), its count is 0 only when neither owns it, and 'A Destroyed'
\* is written exactly once, by the second release and not by the first.
C2_SharedCount ==
    Made(148) =>
        LET e == E(148) IN
        /\ (InShared /\ HasSlot("ptrB") /\ Ref("ptrA") = e /\ Ref("ptrB") = e)
              => ents[e].count >= 2
        /\ \A i \in DOMAIN log :
              log[i].txt = "ptrA usecount is: " => log[i].val >= 2
        /\ ents[e].count = 0 => (Past(161) /\ Owners(e) = {})
        /\ IF Past(161) THEN N("A Destroyed", e) = 1 ELSE N("A Destroyed", e) = 0
        /\ N("B:A Destoyed", e) = 0

C2_Witness ==
    /\ pc = 165
    /\ Made(148)
    /\ ents[E(148)].count = 0
    /\ N("A Destroyed", E(148)) = 1
    /\ \E i \in DOMAIN log : log[i] = EvVal("ptrA usecount is: ", E(148), 2)

\* C3: dynamic_pointer_cast<B> applied to the A-typed owner basePtr raises no
\* fault; its result is non-null exactly when the entity is a B, and then it
\* is one more owner of that same entity; when the entity is an A the result
\* is null and no entity (so no owner count) changes.
C3_DownCast ==
    [][pc = 175 =>
         LET r == Ref("basePtr") IN
         /\ pc' = 176
         /\ frame' = Append(frame, Last(frame'))
         /\ Last(frame').name = "downCastPtr"
         /\ (Last(frame').ref # 0) <=> (ents[r].kind = "B")
         /\ ents[r].kind = "B" =>
               /\ Last(frame').ref = r
               /\ ents' = [ents EXCEPT ![r].count = @ + 1]
         /\ ents[r].kind = "A" =>
               /\ Last(frame').ref = 0
               /\ ents' = ents]_vars

C3_Witness ==
    /\ pc = 176
    /\ HasSlot("downCastPtr")
    /\ Ref("downCastPtr") = 0
    /\ ents[Ref("basePtr")].kind = "A"
    /\ ents[Ref("basePtr")].count = 1

\* C4: after both releases of the exclusive scenario, every destruction line
\* of the Derived entity (created second) precedes every destruction line of
\* the Base entity (created first).
C4_ReverseOrder ==
    Past(118) => AllBefore(DtorIdx(E(114)), DtorIdx(E(111)))

\* C5: every dereference of downCastPtr is guarded by a null check.
C5_Guarded == \A d \in derefs : d.owner = "downCastPtr" => d.guarded

\* C6: the upcast at line 170 constructs nothing, makes basePtr one more
\* owner of derivedPtr's B entity, and to_string() through basePtr runs A's
\* body before it (line 169) and B's body after it (line 172).
C6_Upcast ==
    [][/\ pc = 169 => Last(log') = Ev("I am an A", Ref("basePtr"))
       /\ pc = 170 =>
             LET b == Ref("derivedPtr") IN
             /\ ents[b].kind = "B"
             /\ Len(ents') = Len(ents)
             /\ Total("A Created")' = Total("A Created")
             /\ Total("B:A Created")' = Total("B:A Created")
             /\ Ref("basePtr")' = b
             /\ Ref("derivedPtr")' = b
             /\ ents'[b].count = ents[b].count + 1
             /\ ents'[b].addr = ents[b].addr
       /\ pc = 172 =>
             /\ Ref("basePtr") = Ref("derivedPtr")
             /\ Static("basePtr") = "A"
             /\ Last(log') = Ev("I am a B", Ref("basePtr"))]_vars

C6_Witness ==
    /\ pc = 175
    /\ Made(167)
    /\ Ref("basePtr") = E(167)
    /\ ents[E(167)].count = 2
    /\ Last(log) = Ev("I am a B", E(167))
    /\ N("I am an A", E(166)) = 1

\* C7: while ptrA and ptrB are both live in shared_pointer_example they refer
\* to one entity: same address (also as printed), same member 'A' (also as
\* printed), and a single construction line since the function was entered.
C7_SameEntity ==
    (InShared /\ HasSlot("ptrB") /\ Ref("ptrA") # 0 /\ Ref("ptrB") # 0) =>
        /\ Ref("ptrA") = Ref("ptrB")
        /\ get("ptrA") = get("ptrB")
        /\ ents[Ref("ptrA")].member = "A"
        /\ ents[Ref("ptrB")].member = "A"
        /\ \A i, j \in DOMAIN log :
              (log[i].txt = "ptrA points to " /\ log[j].txt = "ptrB points to ")
                 => log[i].val = log[j].val /\ log[i].val = get("ptrA")
        /\ \A i \in DOMAIN log :
              log[i].txt \in {"ptrA member: ", "ptrB member: "} => log[i].str = "A"
        /\ Cardinality({i \in DOMAIN log :
                           /\ log[i].txt \in {"A Created", "B:A Created"}
                           /\ AllBefore(Idx("---- Shared pointers: ", 0), {i})}) = 1

C7_Witness ==
    /\ pc = 158
    /\ Ref("ptrA") = Ref("ptrB")
    /\ Ref("ptrA") # 0
    /\ \E i, j \in DOMAIN log :
          /\ log[i].txt = "ptrA points to "
          /\ log[j].txt = "ptrB points to "
          /\ log[i].val = log[j].val
    /\ \E i \in DOMAIN log : log[i] = EvStr("ptrB member: ", Ref("ptrB"), "A")

\* C8: to_string() runs the body of the entity's dynamic type: ptrA's A says
\* 'I am an A', the B held by the A-typed ptrC says 'I am a B'; and every B
\* writes 'A Created' immediately before 'B:A Created'.
C8_Dispatch ==
    /\ \A i \in DOMAIN log :
          log[i].txt \in {"I am an A", "I am a B"} =>
              log[i].txt = to_string(ents[log[i].ent].kind)
    /\ Past(112) => N("I am an A", E(111)) = 1
    /\ Past(122) => N("I am a B", E(121)) = 1 /\ N("I am an A", E(121)) = 0
    /\ \A e \in DOMAIN ents :
          ents[e].kind = "B" =>
              /\ N("A Created", e) = 1
              /\ N("B:A Created", e) = 1
              /\ \A i \in Idx("B:A Created", e) :
                    i > 1 /\ log[i - 1] = Ev("A Created", e)

C8_Witness ==
    /\ pc = 123
    /\ Len(frame) = 3
    /\ Static("ptrC") = "A"
    /\ ents[Ref("ptrC")].kind = "B"
    /\ Last(log) = Ev("I am a B", Ref("ptrC"))
    /\ N("I am an A", E(111)) = 1

\* C9: the A first held by basePtr is destroyed exactly once, by the
\* assignment at line 170 (so before the to_string() of line 172); line 178
\* prints 3 for the B, whose owners are then derivedPtr, basePtr and
\* downCastPtr; the B is untouched while anyone owns it, its last owner is
\* the A-typed basePtr, and at exit it has been destroyed exactly once,
\* 'B:A Destoyed' before 'A Destroyed'.
C9_CastLifetime ==
    /\ Made(166) =>
          /\ IF Past(170) THEN N("A Destroyed", E(166)) = 1
                          ELSE N("A Destroyed", E(166)) = 0
          /\ N("B:A Destoyed", E(166)) = 0
    /\ Made(167) =>
          LET b == E(167) IN
          /\ pc = 178 =>
                /\ ents[b].count = 3
                /\ {frame[i].name : i \in Owners(b)}
                      = {"derivedPtr", "basePtr", "downCastPtr"}
          /\ \A i \in DOMAIN log :
                log[i].txt = "How many pointers point to the Derived class (B)? "
                   => log[i].val = 3 /\ log[i].ent = b
          /\ Owners(b) # {} => Untouched(b) /\ ents[b].alive
          /\ (pc = 180 /\ ents[b].count = 1) =>
                \A i \in Owners(b) : frame[i].static = "A"
          /\ (InShared /\ Owners(b) = {}) => FullyDestroyed(b)
          /\ pc = 221 => FullyDestroyed(b) /\ ~ents[b].alive

C9_Witness ==
    /\ pc = 221
    /\ Made(167)
    /\ N("B:A Destoyed", E(167)) = 1
    /\ N("A Destroyed", E(167)) = 1
    /\ N("A Destroyed", E(166)) = 1
    /\ \E i \in DOMAIN log :
          log[i] = EvVal("How many pointers point to the Derived class (B)? ",
                         E(167), 3)

\* C10: no pointer is used while null or dangling, an exclusively-owned
\* entity never has two owners, and when a function has returned every entity
\* it constructed has been destroyed exactly once, so that the construction
\* lines of each kind are as many as the destruction lines of that kind.
C10_Balanced ==
    /\ \A d \in derefs : d.live
    /\ \A e \in DOMAIN ents :
          ents[e].own = "unique" => Cardinality(Owners(e)) <= 1
    /\ pc \in {219, 221} \cup (148..180) =>
          \A e \in DOMAIN ents : ents[e].own = "unique" => FullyDestroyed(e)
    /\ pc \in {219, 221} =>
          /\ \A e \in DOMAIN ents : FullyDestroyed(e)
          /\ Total("A Created") = Total("A Destroyed")
          /\ Total("B:A Created") = Total("B:A Destoyed")

====
